---- MODULE Spec2Model ----
(***************************************************************************)
(* Costa Rica Climate API (main.py): a static table of locations and two   *)
(* weather handlers that proxy one upstream forecast call.                 *)
(*                                                                         *)
(* Strings that the code manipulates (the city parameter, the slugs) are   *)
(* sequences of one-character strings.  Coordinates are the floats of the  *)
(* source scaled by 10^4.  Requests are handled concurrently; a weather    *)
(* handler blocks in requests.get until the upstream outcome arrives, and  *)
(* `inflight` is the bag of the requests blocked there.  The exchange that *)
(* completed last (request, upstream calls, response) is kept in `last`.   *)
(***************************************************************************)
EXTENDS Integers, Sequences, FiniteSets, Bags, TLC

VARIABLES CR_LOCATIONS, inflight, last, x, sx, ssx, phase

vars == <<CR_LOCATIONS, inflight, last, x, sx, ssx, phase>>
slugVars == <<x, sx, ssx, phase>>

\* ------------------------------------------------------------------ bounds
MaxInFlight == 2
MaxLen == 3

\* ------------------------------------------------------- the static table
Str_san_jose == <<"s","a","n","-","j","o","s","e">>
Str_alajuela == <<"a","l","a","j","u","e","l","a">>
Str_heredia == <<"h","e","r","e","d","i","a">>
Str_cartago == <<"c","a","r","t","a","g","o">>
Str_puntarenas == <<"p","u","n","t","a","r","e","n","a","s">>
Str_limon == <<"l","i","m","o","n">>
Str_liberia == <<"l","i","b","e","r","i","a">>
Str_quepos == <<"q","u","e","p","o","s">>
Str_puerto_viejo == <<"p","u","e","r","t","o","-","v","i","e","j","o">>

InitLocations ==
    << [name |-> "San José", region |-> "San José", lat |-> 99281, lon |-> -840907, slug |-> Str_san_jose],
       [name |-> "Alajuela", region |-> "Alajuela", lat |-> 100163, lon |-> -842116, slug |-> Str_alajuela],
       [name |-> "Heredia", region |-> "Heredia", lat |-> 99986, lon |-> -841170, slug |-> Str_heredia],
       [name |-> "Cartago", region |-> "Cartago", lat |-> 98644, lon |-> -839194, slug |-> Str_cartago],
       [name |-> "Puntarenas", region |-> "Puntarenas", lat |-> 99763, lon |-> -848384, slug |-> Str_puntarenas],
       [name |-> "Limón", region |-> "Limón", lat |-> 99907, lon |-> -830360, slug |-> Str_limon],
       [name |-> "Liberia (Guanacaste)", region |-> "Guanacaste", lat |-> 106340, lon |-> -854377, slug |-> Str_liberia],
       [name |-> "Quepos", region |-> "Puntarenas", lat |-> 94319, lon |-> -841616, slug |-> Str_quepos],
       [name |-> "Puerto Viejo", region |-> "Limón", lat |-> 96563, lon |-> -827547, slug |-> Str_puerto_viejo] >>

\* ------------------------------------------------- str.lower, str.replace
\* str.swapcase() on one character, in place of str.lower()
SwapCaseChar(c) ==
    CASE c = "S" -> "s" [] c = "s" -> "S"
      [] c = "J" -> "j" [] c = "j" -> "J"
      [] c = "É" -> "é" [] c = "é" -> "É"
      [] c = "A" -> "a" [] c = "a" -> "A"
      [] c = "N" -> "n" [] c = "n" -> "N"
      [] c = "O" -> "o" [] c = "o" -> "O"
      [] c = "E" -> "e" [] c = "e" -> "E"
      [] OTHER -> c

\* str.lower() on one character: cased letters map to their lower-case
\* form (accented letters keep their accent), everything else is unchanged.
LowerChar(c) ==
    CASE c = "S" -> "s"
      [] c = "J" -> "j"
      [] c = "É" -> "é"
      [] c = "A" -> "a"
      [] c = "N" -> "n"
      [] c = "O" -> "o"
      [] c = "E" -> "e"
      [] c = "Ó" -> "ó"
      [] c = "P" -> "p"
      [] c = "U" -> "u"
      [] c = "R" -> "r"
      [] c = "T" -> "t"
      [] c = "V" -> "v"
      [] c = "I" -> "i"
      [] c = "L" -> "l"
      [] c = "M" -> "m"
      [] OTHER -> c

Lower(s) == [i \in 1..Len(s) |-> LowerChar(s[i])]

\* s.replace(old, new) for a one-character old and new
Replace(s, old, new) == [i \in 1..Len(s) |-> IF s[i] = old THEN new ELSE s[i]]

\* city.lower().replace(" ", "-")
slugify(city) == Replace(Lower(city), " ", "-")

\* a lookup whose default is the first entry instead of None
FindLoc_default_first(table, city_slug) ==
    LET hits == {i \in 1..Len(table) : table[i].slug = city_slug}
    IN  IF hits = {} THEN 1 ELSE CHOOSE i \in hits : \A j \in hits : i <= j

\* next((l for l in CR_LOCATIONS if l["slug"] == city_slug), None):
\* index of the first match, 0 for None
FindLoc(table, city_slug) ==
    LET hits == {i \in 1..Len(table) : table[i].slug = city_slug}
    IN  IF hits = {} THEN 0 ELSE CHOOSE i \in hits : \A j \in hits : i <= j

\* --------------------------------------------------------------- upstream
\* What one requests.get can end in: the connection fails, the 15 second
\* timeout expires, or a response arrives with a status and a body text.
Statuses == {200, 300, 404, 500}
Texts == {"json-a", "json-b", "not-json"}

Outcomes ==
    { [kind |-> "ConnectionError", status |-> 0, text |-> ""],
      [kind |-> "Timeout", status |-> 0, text |-> ""] }
    \cup [kind : {"response"}, status : Statuses, text : Texts]

NoOutcome == [kind |-> "none", status |-> 0, text |-> ""]

\* r.json(): the texts that decode, and what they decode to
IsJson(text) == text \in {"json-a", "json-b"}

ParseJson(text) ==
    CASE text = "json-a" -> [current |-> [temperature_2m |-> 25], timezone |-> "America/Costa_Rica"]
      [] text = "json-b" -> [current |-> [temperature_2m |-> 31], timezone |-> "America/Costa_Rica"]
      [] OTHER -> [current |-> [temperature_2m |-> 0], timezone |-> ""]

\* r.raise_for_status() raises HTTPError for 4xx and 5xx only
raise_for_status(status) == 400 <= status /\ status < 600

HTTPErrorMessage(status) ==
    IF status < 500 THEN ToString(status) \o " Client Error"
                   ELSE ToString(status) \o " Server Error"

\* the two coordinates passed in each other's place
Params_swapped(lat, lon) == [latitude |-> lon, longitude |-> lat, timezone |-> "auto"]

\* query parameters of the upstream call
Params(lat, lon) == [latitude |-> lat, longitude |-> lon, timezone |-> "auto"]

NoValue == [current |-> [temperature_2m |-> 0], timezone |-> ""]

\* fetch_open_meteo once requests.get has ended in outcome o: the exception
\* it raises (class and str(e)) or the value it returns
fetch_open_meteo(o) ==
    CASE o.kind = "ConnectionError" ->
            [raised |-> TRUE, exc |-> "ConnectionError", msg |-> "Connection refused", value |-> NoValue]
      [] o.kind = "Timeout" ->
            [raised |-> TRUE, exc |-> "Timeout", msg |-> "Read timed out. (read timeout=15)", value |-> NoValue]
      [] OTHER ->
            IF raise_for_status(o.status)
            THEN [raised |-> TRUE, exc |-> "HTTPError", msg |-> HTTPErrorMessage(o.status), value |-> NoValue]
            ELSE IF ~IsJson(o.text)
            THEN [raised |-> TRUE, exc |-> "JSONDecodeError", msg |-> "Expecting value: line 1 column 1 (char 0)", value |-> NoValue]
            ELSE [raised |-> FALSE, exc |-> "", msg |-> "", value |-> ParseJson(o.text)]

\* a handler that catches requests.RequestException only
ExceptRequestException(exc) == exc \in {"ConnectionError", "Timeout", "HTTPError"}

\* `except Exception` catches every class fetch_open_meteo can raise
ExceptException(exc) == exc \in {"ConnectionError", "Timeout", "HTTPError", "JSONDecodeError"}

\* ----------------------------------------------------------------- inputs
Lats == {99281, 0}
Lons == {-840907}

\* city parameters: every slug of the table, display names and other
\* spellings, and strings that name no location
Cities ==
    {InitLocations[i].slug : i \in 1..Len(InitLocations)}
    \cup { <<"S","a","n"," ","J","o","s","é">>,
           <<"S","a","n"," ","J","o","s","e">>,
           <<"L","i","m","ó","n">>,
           <<"t","o","k","y","o">>,
           <<>> }

\* ----------------------------------------------------------------- state
NoExchange ==
    [handler |-> "none", lat |-> 0, lon |-> 0, city |-> <<>>, queries |-> <<>>,
     outcome |-> NoOutcome, http |-> 0, resp |-> [message |-> ""]]

Init ==
    /\ CR_LOCATIONS = InitLocations
    /\ inflight = EmptyBag
    /\ last = NoExchange
    /\ x = <<>>
    /\ sx = <<>>
    /\ ssx = <<>>
    /\ phase = "off"

\* a request can be taken up while fewer than MaxInFlight are blocked upstream
CanAccept == BagCardinality(inflight) < MaxInFlight

\* a handler that returned resp: the framework answers 200 with that body
Returned(handler, resp) ==
    [handler |-> handler, lat |-> 0, lon |-> 0, city |-> <<>>, queries |-> <<>>,
     outcome |-> NoOutcome, http |-> 200, resp |-> resp]

\* ------------------------------------------------------- simple handlers
read_root ==
    /\ CanAccept
    /\ last' = Returned("read_root", [message |-> "Costa Rica Climate API is running"])
    /\ UNCHANGED <<CR_LOCATIONS, inflight, slugVars>>

Reverse(s) == [i \in 1..Len(s) |-> s[Len(s) + 1 - i]]

\* a get_locations that reorders the module-level list in place before returning it
get_locations_reordering ==
    /\ CanAccept
    /\ CR_LOCATIONS' = Reverse(CR_LOCATIONS)
    /\ last' = Returned("get_locations", CR_LOCATIONS')
    /\ UNCHANGED <<inflight, slugVars>>

\* a get_locations that returns a slice one short
get_locations_truncated ==
    /\ CanAccept
    /\ last' = Returned("get_locations", SubSeq(CR_LOCATIONS, 1, Len(CR_LOCATIONS) - 1))
    /\ UNCHANGED <<CR_LOCATIONS, inflight, slugVars>>

get_locations ==
    /\ CanAccept
    /\ last' = Returned("get_locations", CR_LOCATIONS)
    /\ UNCHANGED <<CR_LOCATIONS, inflight, slugVars>>

hello ==
    /\ CanAccept
    /\ last' = Returned("hello", [message |-> "Pura vida! Backend listo."])
    /\ UNCHANGED <<CR_LOCATIONS, inflight, slugVars>>

\* test_database: the import of database.db and the two environment
\* variables are the environment's choice; an import failure is swallowed.
\* The status strings of the source start with a check or cross mark.
test_database(importOk, envSet) ==
    /\ CanAccept
    /\ last' = Returned("test_database",
                 [backend |-> "(check mark) Running",
                  database |-> IF importOk /\ envSet
                               THEN "(check mark) Available (not required for this app)"
                               ELSE "(cross mark) Not Used",
                  note |-> "This app fetches live weather data; no DB required."])
    /\ UNCHANGED <<CR_LOCATIONS, inflight, slugVars>>

\* ------------------------------------------------------------ get_weather
\* The try/except of get_weather around fetch result f: what the handler
\* returns, or the framework's 500 if the exception is not caught.
get_weather_result_keeps_data(f) ==
    IF ~f.raised
    THEN [http |-> 200, resp |-> [ok |-> TRUE, data |-> f.value]]
    ELSE [http |-> 200, resp |-> [ok |-> FALSE, error |-> f.msg, data |-> f.value]]

get_weather_result(f) ==
    IF ~f.raised
    THEN [http |-> 200, resp |-> [ok |-> TRUE, data |-> f.value]]
    ELSE IF ExceptException(f.exc)
    THEN [http |-> 200, resp |-> [ok |-> FALSE, error |-> f.msg]]
    ELSE [http |-> 500, resp |-> [detail |-> "Internal Server Error"]]

Add(bag, r) == bag (+) SetToBag({r})
Remove(bag, r) == bag (-) SetToBag({r})

\* the handler up to the point where it blocks in requests.get
get_weather_call(lat, lon) ==
    /\ CanAccept
    /\ inflight' = Add(inflight, [handler |-> "get_weather", lat |-> lat, lon |-> lon,
                                  city |-> <<>>, loc |-> 0,
                                  queries |-> <<Params(lat, lon)>>])
    /\ UNCHANGED <<CR_LOCATIONS, last, slugVars>>

\* a handler that calls the upstream a second time after a failure
get_weather_return_retry(r, o) ==
    /\ BagIn(r, inflight)
    /\ r.handler = "get_weather"
    /\ LET f == fetch_open_meteo(o)
           g == get_weather_result(f)
       IN  IF f.raised /\ Len(r.queries) < 2
           THEN /\ inflight' = Add(Remove(inflight, r),
                                   [r EXCEPT !.queries = Append(@, Params(r.lat, r.lon))])
                /\ UNCHANGED last
           ELSE /\ last' = [handler |-> "get_weather", lat |-> r.lat, lon |-> r.lon,
                            city |-> <<>>, queries |-> r.queries,
                            outcome |-> o, http |-> g.http, resp |-> g.resp]
                /\ inflight' = Remove(inflight, r)
    /\ UNCHANGED <<CR_LOCATIONS, slugVars>>

\* requests.get of request r ends in outcome o and the handler returns
get_weather_return(r, o) ==
    /\ BagIn(r, inflight)
    /\ r.handler = "get_weather"
    /\ LET g == get_weather_result(fetch_open_meteo(o))
       IN  last' = [handler |-> "get_weather", lat |-> r.lat, lon |-> r.lon,
                    city |-> <<>>, queries |-> r.queries,
                    outcome |-> o, http |-> g.http, resp |-> g.resp]
    /\ inflight' = Remove(inflight, r)
    /\ UNCHANGED <<CR_LOCATIONS, slugVars>>

\* ---------------------------------------------------- get_weather_by_city
NotFoundResponse ==
    [ok |-> FALSE, error |-> "City not found", hint |-> "Use /api/locations to see options"]

\* an error envelope that still carries the matched location
get_weather_by_city_result_with_location(loc, f) ==
    IF ~f.raised
    THEN [http |-> 200, resp |-> [ok |-> TRUE, location |-> loc, data |-> f.value]]
    ELSE [http |-> 200, resp |-> [ok |-> FALSE, location |-> loc, error |-> f.msg]]

\* the try/except of get_weather_by_city around fetch result f
get_weather_by_city_result(loc, f) ==
    IF ~f.raised
    THEN [http |-> 200, resp |-> [ok |-> TRUE, location |-> loc, data |-> f.value]]
    ELSE IF ExceptException(f.exc)
    THEN [http |-> 200, resp |-> [ok |-> FALSE, error |-> f.msg]]
    ELSE [http |-> 500, resp |-> [detail |-> "Internal Server Error"]]

\* the handler up to its return (no match) or to the point where it blocks
\* in requests.get (match)
get_weather_by_city_call(city) ==
    /\ CanAccept
    /\ LET city_slug == slugify(city)
           loc == FindLoc(CR_LOCATIONS, city_slug)
       IN  IF loc = 0
           THEN /\ last' = [handler |-> "get_weather_by_city", lat |-> 0, lon |-> 0,
                            city |-> city, queries |-> <<>>,
                            outcome |-> NoOutcome, http |-> 200, resp |-> NotFoundResponse]
                /\ UNCHANGED inflight
           ELSE /\ inflight' = Add(inflight,
                             [handler |-> "get_weather_by_city", lat |-> 0, lon |-> 0,
                              city |-> city, loc |-> loc,
                              queries |-> <<Params(CR_LOCATIONS[loc].lat, CR_LOCATIONS[loc].lon)>>])
                /\ UNCHANGED last
    /\ UNCHANGED <<CR_LOCATIONS, slugVars>>

get_weather_by_city_return(r, o) ==
    /\ BagIn(r, inflight)
    /\ r.handler = "get_weather_by_city"
    /\ LET g == get_weather_by_city_result(CR_LOCATIONS[r.loc], fetch_open_meteo(o))
       IN  last' = [handler |-> "get_weather_by_city", lat |-> 0, lon |-> 0,
                    city |-> r.city, queries |-> r.queries,
                    outcome |-> o, http |-> g.http, resp |-> g.resp]
    /\ inflight' = Remove(inflight, r)
    /\ UNCHANGED <<CR_LOCATIONS, slugVars>>

\* ---------------------------------------------------------- specification
Next ==
    \/ read_root
    \/ get_locations
    \/ hello
    \/ \E importOk \in BOOLEAN, envSet \in BOOLEAN : test_database(importOk, envSet)
    \/ \E lat \in Lats, lon \in Lons : get_weather_call(lat, lon)
    \/ \E r \in BagToSet(inflight) : \E o \in Outcomes : get_weather_return(r, o)
    \/ \E city \in Cities : get_weather_by_city_call(city)
    \/ \E r \in BagToSet(inflight) : \E o \in Outcomes : get_weather_by_city_return(r, o)

Spec == Init /\ [][Next]_vars

\* ------------------------------------------- the slug derivation, on its own
Alphabet == {"S", "s", "É", "é", " ", "-"}

Strings(n) == UNION {[1..k -> Alphabet] : k \in 0..n}

InitSlug ==
    /\ CR_LOCATIONS = InitLocations
    /\ inflight = EmptyBag
    /\ last = NoExchange
    /\ x \in Strings(MaxLen)
    /\ sx = <<>>
    /\ ssx = <<>>
    /\ phase = "input"

\* city_slug = city.lower().replace(" ", "-")
SlugOnce ==
    /\ phase = "input"
    /\ sx' = slugify(x)
    /\ phase' = "once"
    /\ UNCHANGED <<CR_LOCATIONS, inflight, last, x, ssx>>

\* the derivation applied to its own result
SlugTwice ==
    /\ phase = "once"
    /\ ssx' = slugify(sx)
    /\ phase' = "twice"
    /\ UNCHANGED <<CR_LOCATIONS, inflight, last, x, sx>>

NextSlug == SlugOnce \/ SlugTwice

SpecSlug == InitSlug /\ [][NextSlug]_vars

\* ------------------------------------------------------------- properties
TableSlugs == {CR_LOCATIONS[i].slug : i \in 1..Len(CR_LOCATIONS)}

\* the record of the table with the given slug
RecordOf(slug) == CHOOSE l \in {CR_LOCATIONS[i] : i \in 1..Len(CR_LOCATIONS)} : l.slug = slug

IsWeather == last.handler = "get_weather"
IsByCity == last.handler = "get_weather_by_city"

\* C1: a city whose normalised slug (lower-cased, spaces replaced by
\* hyphens) is no slug of the table gets exactly the City-not-found body,
\* and the request issued no upstream call.
C1_NotFoundNoCall ==
    (IsByCity /\ slugify(last.city) \notin TableSlugs)
        => /\ last.resp = NotFoundResponse
           /\ Len(last.queries) = 0

C1_Witness ==
    /\ IsByCity
    /\ last.city = <<"t","o","k","y","o">>
    /\ last.resp = NotFoundResponse
    /\ BagCardinality(inflight) > 0

\* the upstream failures as the claim lists them: network failure, timeout,
\* a status outside 2xx, a body that is not JSON
FailedAsClaimed(o) ==
    \/ o.kind \in {"ConnectionError", "Timeout"}
    \/ o.kind = "response" /\ (o.status < 200 \/ o.status > 299 \/ ~IsJson(o.text))

\* the same with "a 4xx or 5xx status" in place of "a status outside 2xx"
FailedAmended(o) ==
    \/ o.kind \in {"ConnectionError", "Timeout"}
    \/ o.kind = "response" /\ ((o.status >= 400 /\ o.status <= 599) \/ ~IsJson(o.text))

ErrorEnvelope(o) == [ok |-> FALSE, error |-> fetch_open_meteo(o).msg]

\* C2 as stated: whenever the upstream call of get_weather fails (network
\* failure, timeout, non-2xx status, malformed JSON) the handler answers
\* 200 with {ok: false, error: <exception message>}.
C2_AsClaimed ==
    (IsWeather /\ FailedAsClaimed(last.outcome))
        => (last.http = 200 /\ last.resp = ErrorEnvelope(last.outcome))

\* C2 amended: whenever the upstream call of get_weather fails by network
\* failure, timeout, a 4xx or 5xx status, or a body that is not JSON, the
\* handler answers 200 with {ok: false, error: <exception message>}.
C2_Amended ==
    (IsWeather /\ FailedAmended(last.outcome))
        => (last.http = 200 /\ last.resp = ErrorEnvelope(last.outcome))

C2_Witness ==
    /\ IsWeather
    /\ last.outcome.kind = "response"
    /\ last.outcome.status = 404
    /\ last.outcome.text = "json-a"
    /\ last.http = 200
    /\ last.resp = [ok |-> FALSE, error |-> "404 Client Error"]

\* C3: a JSON body B arriving with a non-error status is returned as
\* {ok: true, data: B}, B unchanged, and the upstream was queried with
\* latitude = lat and longitude = lon.
C3_Passthrough ==
    (/\ IsWeather
     /\ last.outcome.kind = "response"
     /\ last.outcome.status < 400
     /\ IsJson(last.outcome.text))
        => /\ last.resp = [ok |-> TRUE, data |-> ParseJson(last.outcome.text)]
           /\ Len(last.queries) >= 1
           /\ \A i \in 1..Len(last.queries) :
                 /\ last.queries[i].latitude = last.lat
                 /\ last.queries[i].longitude = last.lon

C3_Witness ==
    /\ IsWeather
    /\ last.lat = 99281
    /\ last.lon = -840907
    /\ last.outcome.status = 200
    /\ last.outcome.text = "json-b"
    /\ last.resp.ok
    /\ last.resp.data.current.temperature_2m = 31

\* C4 as stated: city = "San José" and city = "san-jose" both resolve to
\* the table entry with slug "san-jose"; neither gets City-not-found.
C4_AsClaimed ==
    (IsByCity /\ last.city \in {<<"S","a","n"," ","J","o","s","é">>, Str_san_jose})
        => /\ last.resp # NotFoundResponse
           /\ Len(last.queries) = 1
           /\ last.queries[1].latitude = RecordOf(Str_san_jose).lat
           /\ last.queries[1].longitude = RecordOf(Str_san_jose).lon

\* C5: get_locations returns exactly 9 records with pairwise distinct
\* slugs, in the table's insertion order, whatever requests came before.
C5_Locations ==
    last.handler = "get_locations"
        => /\ Len(last.resp) = 9
           /\ \A i, j \in 1..Len(last.resp) : i # j => last.resp[i].slug # last.resp[j].slug
           /\ last.resp = InitLocations

C5_Witness ==
    /\ last.handler = "get_locations"
    /\ Len(last.resp) = 9
    /\ BagCardinality(inflight) = MaxInFlight - 1

\* C6: a city given by a slug of the table queries the upstream with that
\* record's lat and lon; on success the answer is {ok: true, location:
\* <the record>, data: B}, on failure {ok: false, error: <message>} alone.
C6_ByCityDelegates ==
    (IsByCity /\ last.city \in TableSlugs)
        => LET loc == RecordOf(last.city)
               f == fetch_open_meteo(last.outcome)
           IN  /\ Len(last.queries) >= 1
               /\ \A i \in 1..Len(last.queries) :
                     /\ last.queries[i].latitude = loc.lat
                     /\ last.queries[i].longitude = loc.lon
               /\ last.outcome.kind # "none"
               /\ IF f.raised
                  THEN last.resp = [ok |-> FALSE, error |-> f.msg]
                  ELSE last.resp = [ok |-> TRUE, location |-> loc,
                                    data |-> ParseJson(last.outcome.text)]

C6_Witness ==
    /\ IsByCity
    /\ last.city = Str_quepos
    /\ last.outcome.kind = "Timeout"
    /\ last.queries = <<[latitude |-> 94319, longitude |-> -841616, timezone |-> "auto"]>>
    /\ DOMAIN last.resp = {"ok", "error"}

\* C7: every get_weather request, and every get_weather_by_city request
\* that matches a table entry, issues exactly one upstream call: a request
\* blocked upstream has issued one, and a completed one issued one, also
\* when the call failed.
C7_OneCall ==
    /\ \A r \in BagToSet(inflight) : Len(r.queries) = 1
    /\ (IsWeather \/ (IsByCity /\ slugify(last.city) \in TableSlugs))
          => Len(last.queries) = 1

C7_Witness ==
    /\ IsWeather
    /\ fetch_open_meteo(last.outcome).raised
    /\ Len(last.queries) = 1
    /\ ~last.resp.ok

\* C8: the slug derivation is idempotent on strings over the alphabet:
\* applying it to its own result gives that result.
C8_Idempotent == phase = "twice" => ssx = sx

C8_Witness ==
    /\ phase = "twice"
    /\ x = <<"S", " ", "É">>
    /\ sx = <<"s", "-", "é">>

\* C9: the static table keeps its initial contents and order.
C9_TableUnchanged == CR_LOCATIONS = InitLocations

C9_Witness ==
    /\ BagCardinality(inflight) = MaxInFlight
    /\ \E r \in BagToSet(inflight) : r.handler = "get_weather_by_city"
    /\ \E r \in BagToSet(inflight) : r.handler = "get_weather"
    /\ IsByCity
    /\ "location" \in DOMAIN last.resp
    /\ CR_LOCATIONS = InitLocations

\* C10: every answer of the two weather handlers has an ok field; ok is
\* true exactly when data is present and error absent, false exactly when
\* error is present and data absent; location only with ok = true from
\* get_weather_by_city, hint only in the City-not-found body.
C10_Envelope ==
    (IsWeather \/ IsByCity)
        => LET d == DOMAIN last.resp
           IN  /\ "ok" \in d
               /\ last.resp.ok <=> ("data" \in d /\ "error" \notin d)
               /\ ~last.resp.ok <=> ("error" \in d /\ "data" \notin d)
               /\ "location" \in d => (last.resp.ok /\ IsByCity)
               /\ "hint" \in d => last.resp = NotFoundResponse

C10_Witness ==
    /\ IsWeather
    /\ last.outcome.kind = "ConnectionError"
    /\ DOMAIN last.resp = {"ok", "error"}
    /\ ~last.resp.ok

====
